---- MODULE Spec2Model ----
(***************************************************************************)
(* A model of pydtnn/utils/best_of.py: the BestOf registry (a set of       *)
(* alternatives of which the fastest is selected per problem size), the    *)
(* tree of _BestOfExecution nodes and the class-wide switch and stack.     *)
(*                                                                         *)
(* BestOf.__call__ runs a user callable in its middle, and that callable   *)
(* may call a BestOf again.  The call is therefore modelled as an          *)
(* activation on `stack`: call_enter is the code up to the invocation of   *)
(* the callable, call_return the code after it, call_raise the callable    *)
(* raising.  Elapsed times are integers; a median is kept doubled so that  *)
(* the mean of the two middle samples stays an integer.                    *)
(***************************************************************************)
EXTENDS Integers, Sequences, FiniteSets, TLC

(* ------------------------------ bounds -------------------------------- *)

NumSites == 1       \* call sites of the main program: 1..NumSites
NumData == 1        \* distinct argument contents per shape: 1..NumData
MaxDepth == 2       \* nested BestOf activations on the Python stack
MaxStale == 1       \* entries a raise may leave behind on _current_parents
MaxAlternatives == 2  \* alternatives of a registry under construction
MaxStages == 3      \* value of `stages` for a registry under construction

Registries == {1, 2}
Shapes == {1, 2}
Sites == 1..NumSites
Args == Shapes \X (1..NumData)

(* ------------------------------ values -------------------------------- *)

NaN == -1                        \* np.median of no samples
NoneV == [type |-> "NoneType"]   \* Python's None, where a callable may stand
NoTime == <<>>                   \* Python's None, where a time may stand
NoSize == 0                      \* _current_problem_size = None
Root == <<0, <<>>>>              \* BestOf._root
NoNode == <<-1, <<>>>>           \* parent of the root: None
NoReg == [type |-> "NoneType"]   \* a registry id not constructed yet

\* A user function: `calls` are the (registry, args) pairs its body may call,
\* the args being OwnArgs where it passes on the arguments it was given, `cost` the elapsed times one invocation may take, `raises` whether an
\* invocation may raise, `catches` whether it catches what a call it makes
\* raises.
OwnArgs == <<0, 0>>
Fn(tag, calls, cost, raises, catches) ==
  [type |-> "function", tag |-> tag, calls |-> calls, cost |-> cost,
   raises |-> raises, catches |-> catches]
Leaf(tag, cost) == Fn(tag, {}, cost, FALSE, FALSE)
Builtin(tag) ==
  [type |-> "builtin_function_or_method", tag |-> tag, calls |-> {}, cost |-> {1},
   raises |-> FALSE, catches |-> FALSE]
Method(tag) ==
  [type |-> "method", tag |-> tag, calls |-> {}, cost |-> {1},
   raises |-> FALSE, catches |-> FALSE]
Str(tag) == [type |-> "str", tag |-> tag]
List(fns) == [type |-> "list", fns |-> fns]
Tuple(fns) == [type |-> "tuple", fns |-> fns]

Range(s) == {s[i] : i \in DOMAIN s}
Min2(a, b) == IF a <= b THEN a ELSE b

(* ------------------------- _BestOfExecution --------------------------- *)

VARIABLES
  use_first_alternative,   \* BestOf._use_first_alternative
  current_parents,         \* BestOf._current_parents
  nodes,                   \* every _BestOfExecution object, by identity
  regs,                    \* the BestOf objects: their immutable attributes
  best_idx, best_name, best_method, best_pipeline,
  current_round, current_alternative, times, stages_times,
  executions,              \* BestOf._executions, per registry
  stack,                   \* activations of BestOf.__call__ in progress
  result,                  \* how the last step ended: "ok" or the exception raised
                           \* (after __init__, with the arguments it was given)
  cycle,                   \* history: per registry and problem size, the stages timed
                           \* for the current alternative in its current cycle
  dropped                  \* history: per registry and problem size, whether a timed
                           \* call has returned at line 330, its sample dropped

vars == <<use_first_alternative, current_parents, nodes, regs, best_idx, best_name,
          best_method, best_pipeline, current_round, current_alternative, times,
          stages_times, executions, stack, result, cycle, dropped>>

tuning == <<best_idx, best_name, best_method, best_pipeline, current_round,
            current_alternative, times, stages_times>>

\* A node that is not entered in the children of its parent
NewNode_unlisted(ns, id, parent) ==
  (id :> [best_of |-> id[1], execution_id |-> id[2], parent |-> parent,
          children |-> <<>>, problem_sizes |-> {}, blocked_by |-> {},
          current_problem_size |-> NoSize]) @@ ns

\* _BestOfExecution.__init__: the new node, appended to its parent's children.
NewNode(ns, id, parent) ==
  LET node == [best_of |-> id[1], execution_id |-> id[2], parent |-> parent,
               children |-> <<>>, problem_sizes |-> {}, blocked_by |-> {},
               current_problem_size |-> NoSize]
      withNode == (id :> node) @@ ns
  IN  [withNode EXCEPT ![parent].children = Append(@, id)]

\* A node that is never taken for the root
is_root_never(ns, n) == FALSE

is_root(ns, n) == ns[n].parent = NoNode

\* A child that never sets its mark
block_parent_never(ns, n) == ns

\* block_parent: parent._blocked_by[parent._current_problem_size][self] = True
block_parent(ns, n) ==
  LET p == ns[n].parent IN
  IF is_root(ns, p) THEN ns
  ELSE [ns EXCEPT ![p].blocked_by = @ \cup {<<ns[p].current_problem_size, n>>}]

\* unblock_parent: pop self from the parent's entry, a missing key suppressed
unblock_parent(ns, n) ==
  LET p == ns[n].parent IN
  IF is_root(ns, p) THEN ns
  ELSE [ns EXCEPT ![p].blocked_by = @ \ {<<ns[p].current_problem_size, n>>}]

\* A node that no child ever blocks
is_blocked_never(ns, n) == FALSE

\* is_blocked: some child blocks the node for its current problem size
is_blocked(ns, n) ==
  \E b \in ns[n].blocked_by : b[1] = ns[n].current_problem_size

\* A node that forgets the marks of its children whenever it is called
set_problem_size_forgetting(ns, n, problem_size) ==
  [ns EXCEPT ![n].current_problem_size = problem_size,
             ![n].problem_sizes = @ \cup {problem_size},
             ![n].blocked_by = {}]

\* set_problem_size; of the per-size call counter only its keys are kept
set_problem_size(ns, n, problem_size) ==
  [ns EXCEPT ![n].current_problem_size = problem_size,
             ![n].problem_sizes = @ \cup {problem_size}]

(* ------------------------------ BestOf -------------------------------- *)

IsFunctionType(a) == a.type \in {"function"}
IsPlainCallable(a) == a.type \in {"function", "builtin_function_or_method"}

\* The assertions without the one on the length of a pipeline
InitAccepts_anylength(alternatives, rounds, pruning_speedup, stages) ==
  /\ stages >= 1
  /\ rounds >= 1
  /\ pruning_speedup > 1
  /\ IF stages = 1
     THEN \A i \in DOMAIN alternatives : IsPlainCallable(alternatives[i][2])
     ELSE \A i \in DOMAIN alternatives :
            /\ alternatives[i][2].type \in {"list", "tuple"}
            /\ \A s \in DOMAIN alternatives[i][2].fns : IsFunctionType(alternatives[i][2].fns[s])

\* The assertions of BestOf.__init__
InitAccepts(alternatives, rounds, pruning_speedup, stages) ==
  /\ stages >= 1
  /\ rounds >= 1
  /\ pruning_speedup > 1
  /\ IF stages = 1
     THEN \A i \in DOMAIN alternatives : IsPlainCallable(alternatives[i][2])
     ELSE \A i \in DOMAIN alternatives :
            /\ alternatives[i][2].type \in {"list", "tuple"}
            /\ Len(alternatives[i][2].fns) = stages
            /\ \A s \in DOMAIN alternatives[i][2].fns : IsFunctionType(alternatives[i][2].fns[s])

times_arrays(k) == [i \in 1..k |-> <<>>]
stages_times_arrays(k, stages) == [i \in 1..k |-> [s \in 1..stages |-> NoTime]]

\* __init__: the attributes of a new BestOf object
NewBestOf(name, alternatives, get_problem_size, rounds, pruning_speedup, prune_after_round, stages) ==
  [type |-> "BestOf", name |-> name, alternatives |-> alternatives,
   get_problem_size |-> get_problem_size, total_rounds |-> rounds,
   stages |-> stages, prune_after_round |-> prune_after_round,
   pruning_speedup |-> pruning_speedup, total_alternatives |-> Len(alternatives)]

Created == {r \in Registries : regs[r] # NoReg}

\* The state of the module once loaded: the class attributes of BestOf, no
\* BestOf object yet.
NoObjects ==
  /\ use_first_alternative = FALSE
  /\ current_parents = <<>>
  /\ nodes = (Root :> [best_of |-> 0, execution_id |-> <<>>, parent |-> NoNode,
                       children |-> <<>>, problem_sizes |-> {}, blocked_by |-> {},
                       current_problem_size |-> NoSize])
  /\ regs = [r \in Registries |-> NoReg]
  /\ best_idx = [r \in Registries |-> <<>>]
  /\ best_name = [r \in Registries |-> [p \in Shapes |-> "None"]]
  /\ best_method = [r \in Registries |-> [p \in Shapes |-> NoneV]]
  /\ best_pipeline = [r \in Registries |-> [p \in Shapes |-> NoneV]]
  /\ current_round = [r \in Registries |-> [p \in Shapes |-> 0]]
  /\ current_alternative = [r \in Registries |-> [p \in Shapes |-> 0]]
  /\ times = [r \in Registries |-> <<>>]
  /\ stages_times = [r \in Registries |-> <<>>]
  /\ executions = [r \in Registries |-> {}]
  /\ stack = <<>>
  /\ result = [status |-> "ok"]
  /\ cycle = [r \in Registries |-> [p \in Shapes |-> {}]]
  /\ dropped = [r \in Registries |-> [p \in Shapes |-> FALSE]]

\* BestOf.__init__, for the object that will be known as r
BestOf_init(r, name, alternatives, get_problem_size, rounds, pruning_speedup, prune_after_round, stages) ==
  /\ regs[r] = NoReg
  /\ stack = <<>>
  /\ IF InitAccepts(alternatives, rounds, pruning_speedup, stages)
     THEN /\ regs' = [regs EXCEPT ![r] = NewBestOf(name, alternatives, get_problem_size,
                                        rounds, pruning_speedup, prune_after_round, stages)]
          /\ result' = [status |-> "ok", alternatives |-> alternatives,
                        rounds |-> rounds, pruning_speedup |-> pruning_speedup,
                        stages |-> stages]
     ELSE /\ regs' = regs
          /\ result' = [status |-> "AssertionError",
                        alternatives |-> alternatives, rounds |-> rounds,
                        pruning_speedup |-> pruning_speedup, stages |-> stages]
  /\ UNCHANGED <<use_first_alternative, current_parents, nodes, tuning, executions, stack,
                  cycle, dropped>>

\* use_always_the_first_alternative
use_always_the_first_alternative ==
  /\ stack = <<>>
  /\ use_first_alternative' = TRUE
  /\ result' = [status |-> "ok"]
  /\ UNCHANGED <<current_parents, nodes, regs, tuning, executions, stack, cycle, dropped>>

(* ---------------------------- BestOf.__call__ ------------------------- *)

\* A Python subscript seq[i]: from the end when i is negative, an IndexError
\* outside -len..len-1.
ValidIndex(seq, i) == -Len(seq) <= i /\ i < Len(seq)
PyAt(seq, i) == seq[IF i >= 0 THEN i + 1 ELSE Len(seq) + i + 1]

\* get_problem_size as the repository's registries give it: the shape of the
\* first argument
GetProblemSize(get_problem_size, args) == args[1]

\* traceback.extract_stack() at the entry of __call__: the call site of the
\* main program, then per enclosing activation the line of __call__ that
\* invoked the callable, and the callable.
ExecutionId(site) ==
  IF stack = <<>> THEN << <<site, "main">> >>
  ELSE LET f == stack[Len(stack)] IN Append(f.node[2], <<f.line, f.fn.tag>>)

\* _register: the node of this execution id, a new one below the innermost
\* active parent when there is none
register(r, execution_id) ==
  IF execution_id \in executions[r] THEN nodes
  ELSE LET current_root == IF Len(current_parents) > 0
                           THEN current_parents[Len(current_parents)] ELSE Root
       IN  NewNode(nodes, <<r, execution_id>>, current_root)

\* Empty series whatever has been recorded
TimesOf_fresh(r, p) == times_arrays(regs[r].total_alternatives)

TimesOf(r, p) ==
  IF p \in DOMAIN times[r] THEN times[r][p] ELSE times_arrays(regs[r].total_alternatives)
StagesTimesOf(r, p) ==
  IF p \in DOMAIN stages_times[r] THEN stages_times[r][p]
  ELSE stages_times_arrays(regs[r].total_alternatives, regs[r].stages)

\* The switch never looked at
UseFirst_never == FALSE

\* line 294: if self._use_first_alternative
UseFirst == use_first_alternative

\* A best method that is never looked up
BestKnown_never(r, problem_size) == NoneV

\* lines 300-306: the best method, or pipeline, known for this problem size
BestKnown(r, problem_size) ==
  IF regs[r].stages = 1 THEN best_method[r][problem_size]
  ELSE best_pipeline[r][problem_size]

Frame(r, node, args, stage, problem_size, line, alt, fn) ==
  [r |-> r, node |-> node, args |-> args, stage |-> stage, problem_size |-> problem_size,
   line |-> line, alt |-> alt, fn |-> fn, called |-> {}]

\* The activations, the one on top having made a call with this problem size
Calling(r, problem_size) ==
  IF stack = <<>> THEN stack
  ELSE [stack EXCEPT ![Len(stack)].called = @ \cup {<<r, problem_size>>}]

Failed(error) == [status |-> error]
Done == [status |-> "ok"]

\* An exception is in flight in the callable on top of the stack, which does
\* not catch it.
Unwinding ==
  /\ stack # <<>>
  /\ result.status # "ok"
  /\ ~ stack[Len(stack)].fn.catches

\* Lines 286-324: from the entry of __call__ to the invocation of the callable.
\* stage_arg is the leading argument of a pipeline call, ignored otherwise.
call_enter(r, site, stage_arg, args) ==
  LET bo == regs[r]
      execution_id == ExecutionId(site)
      current_execution == <<r, execution_id>>
      registered == register(r, execution_id)
      stage == IF bo.stages > 1 THEN stage_arg ELSE 0
      problem_size == GetProblemSize(bo.get_problem_size, args)
      sized == set_problem_size(registered, current_execution, problem_size)
      best == BestKnown(r, problem_size)
      blocked == block_parent(sized, current_execution)
      ca == current_alternative[r][problem_size]
      pushed == Append(current_parents, current_execution)
  IN
  /\ r \in Created
  /\ ~ Unwinding
  /\ Len(stack) < MaxDepth
  /\ Len(current_parents) < MaxDepth + MaxStale
  /\ IF stack = <<>> THEN site \in Sites
     ELSE /\ site = 0
          /\ \/ <<r, args>> \in stack[Len(stack)].fn.calls
             \/ /\ <<r, OwnArgs>> \in stack[Len(stack)].fn.calls
                /\ args = stack[Len(stack)].args
  /\ executions' = [executions EXCEPT ![r] = @ \cup {execution_id}]
  /\ UNCHANGED <<use_first_alternative, regs, cycle, dropped>>
  /\ IF ~ (stage < bo.stages)
     THEN \* line 292: the assertion on the stage
          /\ nodes' = registered
          /\ result' = Failed("AssertionError")
          /\ UNCHANGED <<current_parents, tuning, stack>>
     ELSE IF UseFirst
     THEN \* lines 294-296
          /\ nodes' = registered
          /\ UNCHANGED <<current_parents, tuning>>
          /\ IF /\ ValidIndex(bo.alternatives, 0)
                /\ bo.stages > 1 => ValidIndex(bo.alternatives[1][2].fns, stage)
             THEN /\ stack' = Append(stack, Frame(r, current_execution, args, stage, NoSize, 296, 0,
                                 IF bo.stages = 1 THEN bo.alternatives[1][2]
                                 ELSE PyAt(bo.alternatives[1][2].fns, stage)))
                  /\ result' = Done
             ELSE /\ stack' = stack
                  /\ result' = Failed("IndexError")
     ELSE IF best # NoneV
     THEN \* lines 299-307: the best method is known
          /\ nodes' = sized
          /\ UNCHANGED <<current_parents, tuning>>
          /\ IF bo.stages > 1 => ValidIndex(best.fns, stage)
             THEN /\ stack' = Append(Calling(r, problem_size),
                                     Frame(r, current_execution, args, stage, problem_size,
                                 IF bo.stages = 1 THEN 303 ELSE 307,
                                 best_idx[r][problem_size],
                                 IF bo.stages = 1 THEN best ELSE PyAt(best.fns, stage)))
                  /\ result' = Done
             ELSE /\ stack' = stack
                  /\ result' = Failed("IndexError")
     ELSE \* lines 308-324: the current alternative is evaluated
          /\ nodes' = blocked
          /\ current_parents' = pushed
          /\ UNCHANGED tuning
          /\ IF /\ ValidIndex(bo.alternatives, ca)
                /\ bo.stages > 1 => ValidIndex(bo.alternatives[ca + 1][2].fns, stage)
             THEN /\ stack' = Append(Calling(r, problem_size),
                                     Frame(r, current_execution, args, stage, problem_size,
                                 324, ca,
                                 IF bo.stages = 1 THEN bo.alternatives[ca + 1][2]
                                 ELSE PyAt(bo.alternatives[ca + 1][2].fns, stage)))
                  /\ result' = Done
             ELSE /\ stack' = stack
                  /\ result' = Failed("IndexError")

\* The k-th smallest of the samples x, k in 1..Len(x)
KthSmallest(x, k) ==
  CHOOSE v \in Range(x) :
    /\ Cardinality({i \in DOMAIN x : x[i] < v}) < k
    /\ Cardinality({i \in DOMAIN x : x[i] <= v}) >= k

\* Twice np.median(x): the middle sample, or the mean of the two middle ones
Median2(x) ==
  IF Len(x) = 0 THEN NaN
  ELSE IF Len(x) % 2 = 1 THEN 2 * KthSmallest(x, (Len(x) + 1) \div 2)
  ELSE KthSmallest(x, Len(x) \div 2) + KthSmallest(x, Len(x) \div 2 + 1)

\* x < y and x <= y on floats: false when either is nan
FloatLess(x, y) == x # NaN /\ y # NaN /\ x < y
FloatLeq(x, y) == x # NaN /\ y # NaN /\ x <= y

\* Python's min(list): the first item no later item is less than
RECURSIVE PyMinFrom(_, _, _)
PyMinFrom(list, i, current) ==
  IF i > Len(list) THEN current
  ELSE PyMinFrom(list, i + 1, IF FloatLess(list[i], current) THEN list[i] ELSE current)
PyMin(list) == PyMinFrom(list, 2, list[1])

\* The last of the minimums instead of the first
PyIndex_last(list, v) ==
  (CHOOSE i \in DOMAIN list : list[i] = v /\ \A j \in (i + 1)..Len(list) : list[j] # v) - 1

\* list.index(v), from 0: the first item that is v (a nan is found by identity,
\* and min returns the first item when that is a nan)
PyIndex(list, v) == (CHOOSE i \in DOMAIN list : list[i] = v /\ \A j \in 1..(i - 1) : list[j] # v) - 1

\* line 363: median <= min_time * pruning_speedup, on doubled medians
BelowPruningSpeedup(x, min_time, pruning_speedup) ==
  min_time # NaN /\ FloatLeq(x, min_time * pruning_speedup)

\* The round never counted
evolve_noround(bo, stage, alternative, round) ==
  IF bo.stages = 1 \/ (bo.stages > 1 /\ stage = bo.stages - 1)
  THEN <<(alternative + 1) % bo.total_alternatives, round>>
  ELSE <<alternative, round>>

\* A cursor that goes back to the first alternative after every sample
evolve_restart(bo, stage, alternative, round) ==
  IF bo.stages = 1 \/ (bo.stages > 1 /\ stage = bo.stages - 1)
  THEN <<0, round + 1>>
  ELSE <<alternative, round>>

\* lines 334-342
evolve(bo, stage, alternative, round) ==
  IF bo.stages = 1 \/ (bo.stages > 1 /\ stage = bo.stages - 1)
  THEN LET new_alternative == (alternative + 1) % bo.total_alternatives
       IN  <<new_alternative, IF new_alternative = 0 THEN round + 1 ELSE round>>
  ELSE <<alternative, round>>

Sum(x) == LET RECURSIVE S(_)
              S(i) == IF i = 0 THEN 0 ELSE x[i][1] + S(i - 1)
          IN  S(Len(x))

\* Every timed call recorded as a sample of its own, whatever the stage
Recorded_everystage(bo, r, problem_size, stage, ca, elapsed_time) ==
  LET t0 == TimesOf(r, problem_size)
      cr == current_round[r][problem_size]
      ev == evolve(bo, bo.stages - 1, ca, cr)
  IN  [times |-> (problem_size :> [t0 EXCEPT ![ca + 1] = Append(@, elapsed_time)]) @@ times[r],
       stages_times |-> stages_times[r], alternative |-> ev[1], round |-> ev[2]]

\* lines 344-357: the sample is recorded, the alternative and round evolve.
\* Gives the times, the stage times, the alternative and the round.
Recorded(bo, r, problem_size, stage, ca, elapsed_time) ==
  LET t0 == TimesOf(r, problem_size)
      s0 == StagesTimesOf(r, problem_size)
      cr == current_round[r][problem_size]
      pos == IF stage >= 0 THEN stage + 1 ELSE bo.stages + stage + 1
      s1 == [s0 EXCEPT ![ca + 1][pos] = <<elapsed_time>>]
      complete == \A k \in DOMAIN s1[ca + 1] : s1[ca + 1][k] # NoTime
      ev == evolve(bo, stage, ca, cr)
  IN
  IF bo.stages = 1
  THEN [times |-> (problem_size :> [t0 EXCEPT ![ca + 1] = Append(@, elapsed_time)]) @@ times[r],
        stages_times |-> stages_times[r], alternative |-> ev[1], round |-> ev[2]]
  ELSE IF stage = bo.stages - 1
  THEN \* line 357 resets the buffer of current_alternative, which line 355 has
       \* already moved on when the sample was complete
       LET reset == IF complete THEN ev[1] ELSE ca IN
       [times |-> IF complete
                  THEN (problem_size :> [t0 EXCEPT ![ca + 1] = Append(@, Sum(s1[ca + 1]))]) @@ times[r]
                  ELSE times[r],
        stages_times |-> (problem_size :>
                            [s1 EXCEPT ![reset + 1] = [k \in 1..bo.stages |-> NoTime]]) @@ stages_times[r],
        alternative |-> IF complete THEN ev[1] ELSE ca,
        round |-> IF complete THEN ev[2] ELSE cr]
  ELSE [times |-> times[r],
        stages_times |-> (problem_size :> s1) @@ stages_times[r],
        alternative |-> ca, round |-> cr]

\* The decision taken from the first round on, whatever prune_after_round
DecisionDue_early(bo, alternative, round) == alternative = 0

\* line 360
DecisionDue(bo, alternative, round) ==
  alternative = 0 /\ round >= Min2(bo.prune_after_round, bo.total_rounds)

\* line 361, doubled
BestTimes(ts) == [i \in DOMAIN ts |-> Median2(ts[i])]

\* The selection made as soon as any alternative is below the pruning speedup
SelectNow_any(bo, round, best_times) ==
  LET min_time == PyMin(best_times)
      below == {i \in DOMAIN best_times :
                  BelowPruningSpeedup(best_times[i], min_time, bo.pruning_speedup)}
  IN  round = bo.total_rounds \/ Cardinality(below) >= 1

\* A decision that never selects
SelectNow_never(bo, round, best_times) == FALSE

\* line 364
SelectNow(bo, round, best_times) ==
  LET min_time == PyMin(best_times)
      below == {i \in DOMAIN best_times :
                  BelowPruningSpeedup(best_times[i], min_time, bo.pruning_speedup)}
  IN  round = bo.total_rounds \/ Cardinality(below) = 1

\* A cursor that steps over no discarded alternative
NextNotDiscarded_stay(bo, alternative, best_times) == alternative

\* lines 377-380: the first alternative from the current one on that is not
\* discarded, the current one when there is none
NextNotDiscarded(bo, alternative, best_times) ==
  LET min_time == PyMin(best_times)
      live == {i \in alternative..(Len(best_times) - 1) :
                 BelowPruningSpeedup(best_times[i + 1], min_time, bo.pruning_speedup)}
  IN  IF live = {} THEN alternative
      ELSE CHOOSE i \in live : \A j \in live : i <= j

\* One cursor and one round for all the problem sizes of a registry
StoreKey_shared(d, r, problem_size, v) == [d EXCEPT ![r] = [q \in DOMAIN @ |-> v]]

\* lines 383-384: self._current_alternative[problem_size] = v, and the round
StoreKey(d, r, problem_size, v) == [d EXCEPT ![r][problem_size] = v]

\* Lines 325-387: from the return of the callable to the return of __call__.
call_return(elapsed_time) ==
  LET f == stack[Len(stack)]
      r == f.r
      bo == regs[r]
      problem_size == f.problem_size
      rec == Recorded(bo, r, problem_size, f.stage, f.alt, elapsed_time)
      due == DecisionDue(bo, rec.alternative, rec.round)
      \* line 361 reads self._times[problem_size], which makes the key
      ts == IF problem_size \in DOMAIN rec.times THEN rec.times[problem_size]
            ELSE times_arrays(bo.total_alternatives)
      times_read == IF due THEN (problem_size :> ts) @@ rec.times ELSE rec.times
      best_times == BestTimes(ts)
      select == due /\ SelectNow(bo, rec.round, best_times)
      idx == PyIndex(best_times, PyMin(best_times))
      new_alternative == IF due /\ ~ select
                         THEN NextNotDiscarded(bo, rec.alternative, best_times)
                         ELSE rec.alternative
      popped == SubSeq(current_parents, 1, Len(current_parents) - 1)
  IN
  /\ stack # <<>>
  /\ ~ Unwinding
  /\ elapsed_time \in f.fn.cost
  /\ stack' = SubSeq(stack, 1, Len(stack) - 1)
  /\ result' = Done
  /\ UNCHANGED <<use_first_alternative, regs, executions>>
  /\ IF f.line # 324
     THEN UNCHANGED <<current_parents, nodes, tuning, cycle, dropped>>
     ELSE /\ current_parents' = popped
          /\ IF is_blocked(nodes, f.node)
             THEN \* line 329: the sample is dropped
                  /\ dropped' = [dropped EXCEPT ![r][problem_size] = TRUE]
                  /\ UNCHANGED <<nodes, tuning, cycle>>
             ELSE /\ UNCHANGED dropped
                  /\ times' = [times EXCEPT ![r] = times_read]
                  /\ stages_times' = [stages_times EXCEPT ![r] = rec.stages_times]
                  /\ current_round' = StoreKey(current_round, r, problem_size, rec.round)
                  /\ cycle' = [cycle EXCEPT ![r][problem_size] =
                                 IF \/ new_alternative # f.alt
                                    \/ f.stage = bo.stages - 1
                                 THEN {}
                                 ELSE @ \cup {IF f.stage >= 0 THEN f.stage
                                              ELSE bo.stages + f.stage}]
                  /\ IF select
                     THEN /\ best_idx' = [best_idx EXCEPT ![r] = (problem_size :> idx) @@ @]
                          /\ best_name' = [best_name EXCEPT ![r][problem_size] =
                                             bo.alternatives[idx + 1][1]]
                          /\ IF bo.stages = 1
                             THEN /\ best_method' = [best_method EXCEPT ![r][problem_size] =
                                                       bo.alternatives[idx + 1][2]]
                                  /\ UNCHANGED best_pipeline
                             ELSE /\ best_pipeline' = [best_pipeline EXCEPT ![r][problem_size] =
                                                         bo.alternatives[idx + 1][2]]
                                  /\ UNCHANGED best_method
                          /\ nodes' = unblock_parent(nodes, f.node)
                     ELSE UNCHANGED <<best_idx, best_name, best_method, best_pipeline, nodes>>
                  /\ current_alternative' =
                       StoreKey(current_alternative, r, problem_size, new_alternative)

\* An activation that ends by an exception and still moves the cursor on
call_raise_advancing ==
  LET f == stack[Len(stack)] IN
  /\ stack # <<>>
  /\ f.fn.raises \/ Unwinding
  /\ stack' = SubSeq(stack, 1, Len(stack) - 1)
  /\ result' = Failed("raised")
  /\ current_alternative' =
       IF f.line = 324
       THEN [current_alternative EXCEPT ![f.r][f.problem_size] =
               (f.alt + 1) % regs[f.r].total_alternatives]
       ELSE current_alternative
  /\ UNCHANGED <<use_first_alternative, current_parents, nodes, regs, best_idx, best_name,
                  best_method, best_pipeline, current_round, times, stages_times,
                  executions, cycle, dropped>>

\* The callable on top of the stack raises, or lets pass what a call it made
\* raised: __call__ has no handler, so the activation ends where it stands.
call_raise ==
  LET f == stack[Len(stack)] IN
  /\ stack # <<>>
  /\ f.fn.raises \/ Unwinding
  /\ stack' = SubSeq(stack, 1, Len(stack) - 1)
  /\ result' = Failed("raised")
  /\ UNCHANGED <<use_first_alternative, current_parents, nodes, regs, tuning, executions,
                  cycle, dropped>>

(* ------------------------------ queries ------------------------------- *)

\* best_method_has_been_found: problem_size in self.best_idx.keys()
best_method_has_been_found(r, args) ==
  LET problem_size == GetProblemSize(regs[r].get_problem_size, args) IN
  /\ r \in Created
  /\ stack = <<>>
  /\ result' = [status |-> "ok", problem_size |-> problem_size,
                found |-> problem_size \in DOMAIN best_idx[r]]
  /\ UNCHANGED <<use_first_alternative, current_parents, nodes, regs, tuning, executions,
                  stack, cycle, dropped>>

\* lines 393-403: per problem size with samples, the medians (doubled), NaN
\* for an alternative without samples
MediansOf(r) == [p \in DOMAIN times[r] |-> [i \in DOMAIN times[r][p] |-> Median2(times[r][p][i])]]

\* medians
medians(r) ==
  /\ r \in Created
  /\ stack = <<>>
  /\ result' = [status |-> "ok", medians |-> MediansOf(r)]
  /\ UNCHANGED <<use_first_alternative, current_parents, nodes, regs, tuning, executions,
                  stack, cycle, dropped>>

\* line 409: best_idx = self.best_idx[problem_size] for every key of _times,
\* which makes the key, with -1, where there is none
BestIdxRead(r) ==
  [p \in DOMAIN best_idx[r] \cup DOMAIN times[r] |->
     IF p \in DOMAIN best_idx[r] THEN best_idx[r][p] ELSE -1]

\* speedups: the keys of the dictionary it returns are the problem sizes
\* whose best_idx is not -1
speedups(r) ==
  /\ r \in Created
  /\ stack = <<>>
  /\ best_idx' = [best_idx EXCEPT ![r] = BestIdxRead(r)]
  /\ result' = [status |-> "ok",
                speedups |-> {p \in DOMAIN times[r] : BestIdxRead(r)[p] # -1}]
  /\ UNCHANGED <<use_first_alternative, current_parents, nodes, regs, best_name,
                  best_method, best_pipeline, current_round, current_alternative, times,
                  stages_times, executions, stack, cycle, dropped>>

\* print_as_table without an execution: medians(), speedups() and a row per
\* key of _times
print_as_table(r) ==
  /\ r \in Created
  /\ stack = <<>>
  /\ best_idx' = [best_idx EXCEPT ![r] = BestIdxRead(r)]
  /\ result' = [status |-> "ok"]
  /\ UNCHANGED <<use_first_alternative, current_parents, nodes, regs, best_name,
                  best_method, best_pipeline, current_round, current_alternative, times,
                  stages_times, executions, stack, cycle, dropped>>

(* ------------------------------ programs ------------------------------ *)

Program(name, alternatives, rounds, pruning_speedup, prune_after_round, stages) ==
  [name |-> name, alternatives |-> alternatives, rounds |-> rounds,
   pruning_speedup |-> pruning_speedup, prune_after_round |-> prune_after_round,
   stages |-> stages]

\* Two functions of varying speed
FlatPair ==
  Program("pair", << <<"a", Leaf("a", {2})>>, <<"b", Leaf("b", {1, 2, 5})>> >>, 2, 2, 1, 1)

\* Three functions of fixed speed: A = 10, B = 1, C = 50
FixedTimes ==
  Program("fixed", << <<"A", Leaf("A", {10})>>, <<"B", Leaf("B", {1})>>,
                      <<"C", Leaf("C", {50})>> >>, 10, 5, 2, 1)

\* Two functions of varying speed, none ever slow enough to be discarded
NoPruning ==
  Program("nopruning", << <<"a", Leaf("a", {2})>>, <<"b", Leaf("b", {1, 3})>> >>, 3, 10, 1, 1)

\* Two pipelines of two stages
Pipelines ==
  Program("pipe", << <<"a", List(<<Leaf("a0", {1}), Leaf("a1", {3})>>)>>,
                     <<"b", Tuple(<<Leaf("b0", {1}), Leaf("b1", {1})>>)>> >>, 1, 2, 1, 2)

\* Three pipelines of two stages, the first one slow
SlowFirst ==
  Program("slowfirst", << <<"x", List(<<Leaf("x0", {50}), Leaf("x1", {50})>>)>>,
                          <<"y", List(<<Leaf("y0", {1}), Leaf("y1", {1})>>)>>,
                          <<"z", List(<<Leaf("z0", {1}), Leaf("z1", {2})>>)>> >>, 2, 2, 1, 2)

\* Three functions of fixed speed, the first one slow
SkipFirst ==
  Program("skipfirst", << <<"x", Leaf("x", {50})>>, <<"y", Leaf("y", {1})>>,
                          <<"z", Leaf("z", {2})>> >>, 2, 5, 1, 1)

\* Two pipelines of two stages whose speeds are within the pruning speedup
EvenPipelines ==
  Program("evenpipes", << <<"x", List(<<Leaf("x0", {1}), Leaf("x1", {1})>>)>>,
                          <<"y", List(<<Leaf("y0", {1}), Leaf("y1", {2})>>)>> >>, 2, 2, 1, 2)

\* Three functions, the first of fixed speed and slow, the others fast or
\* slow from call to call
Slowing ==
  Program("slowing", << <<"A", Leaf("A", {10})>>, <<"B", Leaf("B", {1, 50})>>,
                        <<"C", Leaf("C", {2, 50})>> >>, 2, 2, 1, 1)

\* A function that calls registry 2 with the arguments it was given, and a
\* slower one that calls nothing
Outer ==
  Program("outer", << <<"f", Fn("f", {<<2, OwnArgs>>}, {3}, FALSE, FALSE)>>,
                      <<"g", Leaf("g", {4})>> >>, 1, 2, 1, 1)

\* Two functions of fixed speed, for the registry the functions of Outer call
Inner ==
  Program("inner", << <<"u", Leaf("u", {2})>>, <<"v", Leaf("v", {1})>> >>, 1, 2, 1, 1)

\* Three functions of fixed speed, the last one slow enough to be discarded
\* by a decision that selects nothing
InnerThree ==
  Program("innerthree", << <<"u", Leaf("u", {10})>>, <<"v", Leaf("v", {10})>>,
                           <<"w", Leaf("w", {50})>> >>, 2, 2, 1, 1)

\* Two functions that call their own registry with the arguments they were
\* given; the second is fast when it calls nothing and slow when it does
Recursive ==
  Program("recursive", << <<"a", Fn("a", {<<1, OwnArgs>>}, {3, 4}, FALSE, FALSE)>>,
                          <<"b", Fn("b", {<<1, OwnArgs>>}, {1, 50}, FALSE, FALSE)>> >>,
          1, 2, 1, 1)

\* Two functions, each of which calls registry 2 with one fixed argument list
OuterFixed ==
  Program("outerfixed", << <<"f", Fn("f", {<<2, <<1, 1>>>>}, {3}, FALSE, FALSE)>>,
                           <<"g", Fn("g", {<<2, <<1, 1>>>>}, {4}, FALSE, FALSE)>> >>,
          1, 2, 1, 1)

\* Two functions of fixed speed, each of which may raise
Raising ==
  Program("raising", << <<"u", Fn("u", {}, {2}, TRUE, FALSE)>>,
                        <<"v", Fn("v", {}, {1}, TRUE, FALSE)>> >>, 2, 2, 1, 1)

\* Three functions, the second of which raises whenever it is invoked
Stalling ==
  Program("stalling", << <<"u", Leaf("u", {2, 3})>>, <<"v", Fn("v", {}, {}, TRUE, FALSE)>>,
                         <<"w", Leaf("w", {1})>> >>, 2, 2, 1, 1)

Programs == {FlatPair, FixedTimes, NoPruning, SkipFirst, Pipelines, SlowFirst}

Construct(r, p) ==
  BestOf_init(r, p.name, p.alternatives, "shape", p.rounds, p.pruning_speedup,
              p.prune_after_round, p.stages)

\* The leading argument a pipeline call may give: every stage, and the values
\* next to them on either side
StageArgs(r) ==
  IF regs[r] # NoReg /\ regs[r].stages > 1
  THEN (-1)..regs[r].stages ELSE {0}

\* The shapes of the arguments the main program calls a registry with
MainShapes(r) ==
  IF regs[r] # NoReg /\ regs[r].name \in {"nopruning", "slowfirst", "skipfirst"}
  THEN {1} ELSE Shapes

\* Every elapsed time a function of the programs may take
Costs == {1, 2, 3, 4, 5, 10, 50}

(* --------------------------- specifications --------------------------- *)

Init == NoObjects

\* One registry, made from one of the programs, called from the main program
Next ==
  \/ \E p \in Programs : Construct(1, p)
  \/ use_always_the_first_alternative
  \/ \E site \in Sites, stage \in StageArgs(1), args \in Args :
       args[1] \in MainShapes(1) /\ call_enter(1, site, stage, args)
  \/ \E t \in Costs : call_return(t)

Spec == Init /\ [][Next]_vars

\* Two registries: the main program calls the first, whose functions call the
\* second
NextNested ==
  \/ Construct(1, Outer)
  \/ Construct(2, Inner)
  \/ \E site \in Sites, args \in Args : call_enter(1, site, 0, args)
  \/ \E args \in Args : call_enter(2, 0, 0, args)
  \/ \E t \in Costs : call_return(t)

SpecNested == Init /\ [][NextNested]_vars

\* As NextNested, and the main program calls the inner registry itself too;
\* the main program of this one works on one shape
OneShape == {args \in Args : args[1] = 1}

NextShared ==
  \/ Construct(1, Outer)
  \/ Construct(2, Inner)
  \/ \E r \in Registries, site \in Sites, args \in OneShape :
       stack = <<>> /\ call_enter(r, site, 0, args)
  \/ \E args \in OneShape : stack # <<>> /\ call_enter(2, 0, 0, args)
  \/ \E t \in Costs : call_return(t)

SpecShared == Init /\ [][NextShared]_vars

\* As NextShared, the inner registry with three functions and two rounds
NextPruned ==
  \/ Construct(1, Outer)
  \/ Construct(2, InnerThree)
  \/ \E r \in Registries, site \in Sites, args \in OneShape :
       stack = <<>> /\ call_enter(r, site, 0, args)
  \/ \E args \in OneShape : stack # <<>> /\ call_enter(2, 0, 0, args)
  \/ \E t \in Costs : call_return(t)

SpecPruned == Init /\ [][NextPruned]_vars

\* One registry whose functions call it again
NextReentrant ==
  \/ Construct(1, Recursive)
  \/ \E site \in Sites, args \in OneShape : stack = <<>> /\ call_enter(1, site, 0, args)
  \/ \E args \in OneShape : stack # <<>> /\ call_enter(1, 0, 0, args)
  \/ \E t \in Costs : call_return(t)

SpecReentrant == Init /\ [][NextReentrant]_vars

\* One registry whose functions raise at times; the main program goes on
\* after an exception
NextRaise ==
  \/ Construct(1, Raising)
  \/ \E site \in Sites, args \in Args : call_enter(1, site, 0, args)
  \/ \E t \in Costs : call_return(t)
  \/ call_raise

SpecRaise == Init /\ [][NextRaise]_vars

\* One registry with a function that always raises
NextStall ==
  \/ Construct(1, Stalling)
  \/ \E site \in Sites, args \in Args : call_enter(1, site, 0, args)
  \/ \E t \in Costs : call_return(t)
  \/ call_raise

SpecStall == Init /\ [][NextStall]_vars

\* The stage a main program that calls the stages of a pipeline in order
\* calls next: as many stages as it has timed since the last complete cycle
StageInOrder(r, p) ==
  IF regs[r].stages > 1 /\ Cardinality(cycle[r][p]) < regs[r].stages
  THEN Cardinality(cycle[r][p]) ELSE 0

\* One registry whose functions return and call no registry; the main program
\* calls it again and again from one line with the same arguments, the stages
\* in order
NextLive ==
  \/ \E p \in Programs : Construct(1, p)
  \/ stack = <<>> /\ call_enter(1, 1, StageInOrder(1, 1), <<1, 1>>)
  \/ \E t \in Costs : call_return(t)

\* The main program goes on calling, and every function returns
SpecLive == Init /\ [][NextLive]_vars /\ WF_vars(NextLive)

\* One registry of pipelines, the main program calling the stages in any order
NextPipeline ==
  \/ \E p \in {EvenPipelines, SlowFirst} : Construct(1, p)
  \/ \E site \in Sites, stage \in StageArgs(1), args \in OneShape :
       call_enter(1, site, stage, args)
  \/ \E t \in Costs : call_return(t)

SpecPipeline == Init /\ [][NextPipeline]_vars

\* One registry whose functions change speed, called by the main program
NextSlowing ==
  \/ Construct(1, Slowing)
  \/ \E site \in Sites, args \in Args : call_enter(1, site, 0, args)
  \/ \E t \in Costs : call_return(t)

SpecSlowing == Init /\ [][NextSlowing]_vars

\* The main program calls the outer registry from one line with this shape
OuterCall(shape) == stack = <<>> /\ call_enter(1, 1, 0, <<shape, 1>>)

\* The function of the outer registry that is running calls the inner
\* registry, once
InnerCall ==
  /\ stack # <<>>
  /\ stack[Len(stack)].called = {}
  /\ call_enter(2, 0, 0, <<1, 1>>)

\* A function returns, one of the outer registry once it has made its call
FunctionReturns ==
  /\ stack # <<>>
  /\ stack[Len(stack)].fn.calls # {} => stack[Len(stack)].called # {}
  /\ \E t \in Costs : call_return(t)

\* Two registries: every function of the first calls the second once, with
\* one fixed problem size; the main program calls the first with two shapes
NextNestedLive ==
  \/ Construct(1, OuterFixed)
  \/ Construct(2, Inner)
  \/ \E shape \in Shapes : OuterCall(shape)
  \/ InnerCall
  \/ FunctionReturns

\* The main program calls with each shape again and again, and every function
\* makes its call and returns
SpecNestedLive ==
  /\ Init /\ [][NextNestedLive]_vars
  /\ WF_vars(NextNestedLive)
  /\ \A shape \in Shapes : SF_vars(OuterCall(shape))

\* One registry, called and queried by the main program
NextQueries ==
  \/ Construct(1, FixedTimes)
  \/ \E site \in Sites, args \in Args : call_enter(1, site, 0, args)
  \/ \E t \in Costs : call_return(t)
  \/ \E args \in Args : best_method_has_been_found(1, args)
  \/ medians(1)
  \/ speedups(1)
  \/ print_as_table(1)

SpecQueries == Init /\ [][NextQueries]_vars

\* What a caller may give as the second item of an alternative
Seconds ==
  LET f == Leaf("f", {1})
      g == Leaf("g", {1})
      b == Builtin("len")
  IN  {f, b, Method("m"), Str("s"), List(<<f>>), List(<<f, g>>), Tuple(<<f, g>>),
       List(<<f, b>>), List(<<f, Str("s")>>), List(<<f, g, f>>)}

\* The lists of alternatives a caller may give, up to MaxAlternatives long
AlternativeLists ==
  UNION {[1..n -> {<<"n", x>> : x \in Seconds}] : n \in 0..MaxAlternatives}

\* The first construction, accepted or not, of one registry
NextInit ==
  /\ "alternatives" \notin DOMAIN result
  /\ \E alternatives \in AlternativeLists, rounds \in 0..2, pruning_speedup \in 0..2,
        prune_after_round \in {0, 4}, stages \in 0..MaxStages :
       BestOf_init(1, "n", alternatives, "shape", rounds, pruning_speedup,
                   prune_after_round, stages)

SpecInit == Init /\ [][NextInit]_vars

(* ------------------------------- claims ------------------------------- *)

Top(s) == s[Len(s)]
Entered == Len(stack') = Len(stack) + 1
Returned == Len(stack') = Len(stack) - 1

\* A selection is cached for this registry and problem size
Selected(r, p) ==
  r \in Created /\ (best_method[r][p] # NoneV \/ best_pipeline[r][p] # NoneV)

\* What is kept per registry and problem size
Samples(r, p) == TimesOf(r, p)
StageBuffers(r, p) == StagesTimesOf(r, p)
Selection(r, p) ==
  <<IF p \in DOMAIN best_idx[r] THEN best_idx[r][p] ELSE -1,
    best_name[r][p], best_method[r][p], best_pipeline[r][p]>>
KeyState(r, p) ==
  <<Samples(r, p), StageBuffers(r, p), current_alternative[r][p], current_round[r][p],
    Selection(r, p)>>

\* The callable declared for stage `stage` of alternative i (from 0)
Declared(r, i, stage) ==
  IF regs[r].stages = 1 THEN regs[r].alternatives[i + 1][2]
  ELSE PyAt(regs[r].alternatives[i + 1][2].fns, stage)

\* C1: once a selection is cached for (registry, problem size) and the switch
\* is not set, a call of that registry with that problem size invokes the
\* callable of the cached alternative (of the stage asked for, in a pipeline)
\* and neither its entry nor its return changes the samples, the stage
\* buffers, the cursor, the round or the selection of that key.
C1_FastPath ==
  [][\A r \in Registries, p \in Shapes :
       (Selected(r, p) /\ ~ use_first_alternative) =>
         /\ (Entered /\ Top(stack').r = r /\ Top(stack').problem_size = p) =>
              /\ Top(stack').line \in {303, 307}
              /\ Top(stack').alt = best_idx[r][p]
              /\ Top(stack').fn = Declared(r, best_idx[r][p], Top(stack').stage)
              /\ KeyState(r, p)' = KeyState(r, p)
         /\ (Returned /\ Top(stack).r = r /\ Top(stack).problem_size = p) =>
              KeyState(r, p)' = KeyState(r, p)]_vars

\* A call served from a cached selection that is not the first alternative
C1_Witness ==
  /\ Len(stack) = 1
  /\ stack[1].line \in {303, 307}
  /\ stack[1].alt = 1
  /\ ~ use_first_alternative

SingleStage(r) == r \in Created /\ regs[r].stages = 1
EvalEntered(r, p) ==
  /\ Entered
  /\ Top(stack').r = r /\ Top(stack').problem_size = p /\ Top(stack').line = 324
EvalReturned(r, p) ==
  /\ Returned
  /\ Top(stack).r = r /\ Top(stack).problem_size = p /\ Top(stack).line = 324

Least(S) == CHOOSE m \in S : \A x \in S : m <= x
Medians(r, p) == [i \in DOMAIN Samples(r, p) |-> Median2(Samples(r, p)[i])]
\* The alternatives (from 0) whose median is within the pruning speedup of
\* the least median
LiveAlternatives(r, p) ==
  {i \in 0..(regs[r].total_alternatives - 1) :
     Medians(r, p)[i + 1] <= Least(Range(Medians(r, p))) * regs[r].pruning_speedup}
AllAlternatives(r) == 0..(regs[r].total_alternatives - 1)
NoSamples(r, p) == \A i \in DOMAIN Samples(r, p) : Samples(r, p)[i] = <<>>
RECURSIVE SumLen(_)
SumLen(x) == IF x = <<>> THEN 0 ELSE Len(Head(x)) + SumLen(Tail(x))
TotalSamples(r, p) == SumLen(Samples(r, p))

C4_OtherSizesUntouched ==
  [][\A r \in Registries, p \in Shapes, q \in Shapes :
       (/\ r \in Created
        /\ p # q
        /\ \/ Entered /\ Top(stack').r = r /\ Top(stack').problem_size = p
           \/ Returned /\ Top(stack).r = r /\ Top(stack).problem_size = p)
       => KeyState(r, q)' = KeyState(r, q)]_vars

\* A sample is being taken for one problem size while the other one is in its
\* second round
C4_Witness ==
  /\ Len(stack) = 1
  /\ stack[1].line = 324
  /\ stack[1].problem_size = 1
  /\ current_round[1][2] = 1
  /\ current_alternative[1][2] = 1
  /\ current_round[1][1] = 0

\* The decision of lines 360-364, read off the state the call leaves
Decisive(r, p) ==
  /\ current_alternative[r][p] = 0
  /\ current_round[r][p] >= Min2(regs[r].prune_after_round, regs[r].total_rounds)
  /\ \/ current_round[r][p] = regs[r].total_rounds
     \/ Cardinality(LiveAlternatives(r, p)) = 1

\* The registry made from the program of three functions of fixed speed
IsFixedTimes(r) == r \in Created /\ regs[r].name = "fixed"

\* C5: the selection of a problem size changes in a step exactly when the step
\* is the return of an evaluated call that leaves the cursor at 0, the round at
\* min(prune_after_round, rounds) or more, and either the round at rounds or
\* exactly one alternative with a median within pruning_speedup of the least.
\* With A = 10, B = 1, C = 50, pruning_speedup 5, prune_after_round 2 and
\* rounds 10, nothing is selected before the sixth sample, B is selected with
\* it, and a call served from the selection runs B.
C5_SelectionPoint ==
  /\ [][\A r \in Registries, p \in Shapes :
          r \in Created =>
            ((Selection(r, p)' # Selection(r, p))
               <=> (EvalReturned(r, p) /\ Decisive(r, p)'))]_vars
  /\ [](\A r \in Registries, p \in Shapes :
          IsFixedTimes(r) =>
            /\ TotalSamples(r, p) < 6 => ~ Selected(r, p)
            /\ TotalSamples(r, p) >= 6 =>
                 /\ TotalSamples(r, p) = 6
                 /\ Selection(r, p) = <<1, "B", regs[r].alternatives[2][2], NoneV>>
            /\ \A k \in DOMAIN stack :
                 (stack[k].r = r /\ stack[k].problem_size = p /\ Selected(r, p)
                    /\ ~ use_first_alternative)
                 => stack[k].fn.tag = "B")

\* B has been selected and is being run from the selection
C5_Witness ==
  /\ IsFixedTimes(1)
  /\ Len(stack) = 1
  /\ stack[1].line = 303
  /\ stack[1].fn.tag = "B"
  /\ Samples(1, stack[1].problem_size) = << <<10, 10>>, <<1, 1>>, <<50, 50>> >>

\* C6: a cached selection is the lowest index among the alternatives whose
\* median of recorded samples is the least of the registry for that problem
\* size, with the name and the callable (or the list of stage callables)
\* declared at that index.
C6_LowestMedianFirst ==
  \A r \in Registries, p \in Shapes :
    Selected(r, p) =>
      LET least == Least(Range(Medians(r, p)))
          idx == Least({i \in AllAlternatives(r) : Medians(r, p)[i + 1] = least})
      IN  /\ p \in DOMAIN best_idx[r]
          /\ best_idx[r][p] = idx
          /\ best_name[r][p] = regs[r].alternatives[idx + 1][1]
          /\ IF regs[r].stages = 1
             THEN /\ best_method[r][p] = regs[r].alternatives[idx + 1][2]
                  /\ best_pipeline[r][p] = NoneV
             ELSE /\ best_pipeline[r][p] = regs[r].alternatives[idx + 1][2]
                  /\ best_method[r][p] = NoneV

\* Two alternatives with the same median, the first one selected
C6_Witness ==
  /\ Selected(1, 1)
  /\ regs[1].total_alternatives = 2
  /\ Medians(1, 1)[1] = Medians(1, 1)[2]
  /\ best_idx[1][1] = 0

\* The elapsed times a sample of alternative i (from 1) may be
RECURSIVE StageSums(_)
StageSums(fns) ==
  IF fns = <<>> THEN {0}
  ELSE {c + d : c \in Head(fns).cost, d \in StageSums(Tail(fns))}
SampleCosts(r, i) ==
  IF regs[r].stages = 1 THEN regs[r].alternatives[i][2].cost
  ELSE StageSums(regs[r].alternatives[i][2].fns)
\* No sample of the registry can be more than pruning_speedup times another
PruningDisabled(r) ==
  \A i \in DOMAIN regs[r].alternatives, j \in DOMAIN regs[r].alternatives :
    \A c \in SampleCosts(r, i), d \in SampleCosts(r, j) : c <= d * regs[r].pruning_speedup

\* C7: with two alternatives or more and a pruning_speedup no median can
\* exceed, a selection is cached exactly when the round equals rounds, every
\* alternative then has exactly `rounds` samples, and the selection is the
\* (first) alternative of least median.
C7_NoPruningRunsAllRounds ==
  \A r \in Registries, p \in Shapes :
    (r \in Created /\ regs[r].total_alternatives >= 2 /\ PruningDisabled(r)) =>
      /\ current_round[r][p] <= regs[r].total_rounds
      /\ Selected(r, p) <=> current_round[r][p] = regs[r].total_rounds
      /\ Selected(r, p) =>
           /\ \A i \in DOMAIN Samples(r, p) : Len(Samples(r, p)[i]) = regs[r].total_rounds
           /\ Medians(r, p)[best_idx[r][p] + 1] = Least(Range(Medians(r, p)))

\* The second of two functions selected after three rounds without pruning
C7_Witness ==
  /\ SingleStage(1)
  /\ PruningDisabled(1)
  /\ regs[1].total_rounds = 3
  /\ Selected(1, 1)
  /\ best_idx[1][1] = 1
  /\ Medians(1, 1)[1] > Medians(1, 1)[2]

\* C8: in a pipeline a sample is appended to the series of an alternative only
\* at the return of a call for the last stage of that alternative, every
\* earlier stage having been timed in the current cycle; and the return of a
\* call for the last stage with an earlier stage of the current cycle missing
\* appends no sample and moves neither the cursor nor the round.
C8_CompleteCycleOnly ==
  [][\A r \in Registries, p \in Shapes :
       (r \in Created /\ regs[r].stages > 1) =>
         LET last == regs[r].stages - 1
             complete == cycle[r][p] \cup {last} = 0..last
         IN  /\ \A i \in DOMAIN Samples(r, p) :
                  Samples(r, p)'[i] # Samples(r, p)[i] =>
                    /\ EvalReturned(r, p)
                    /\ Top(stack).stage = last
                    /\ Top(stack).alt = i - 1
                    /\ complete
             /\ (EvalReturned(r, p) /\ Top(stack).stage = last /\ ~ complete) =>
                  /\ Samples(r, p)' = Samples(r, p)
                  /\ current_alternative'[r][p] = current_alternative[r][p]
                  /\ current_round'[r][p] = current_round[r][p]]_vars

\* C10: once the switch is set it stays set, and every call that is
\* dispatched runs the callable of alternative 0 (of the stage asked for, in a
\* pipeline) from line 296, whatever is selected for its problem size.
C10_AlwaysFirst ==
  [][use_first_alternative =>
       /\ use_first_alternative'
       /\ Entered =>
            /\ Top(stack').line = 296
            /\ Top(stack').alt = 0
            /\ Top(stack').fn = Declared(Top(stack').r, 0, Top(stack').stage)]_vars

\* The first alternative runs under the switch although the second is
\* selected for every problem size
C10_Witness ==
  /\ use_first_alternative
  /\ Len(stack) = 1
  /\ stack[1].line = 296
  /\ stack[1].fn = Declared(1, 0, stack[1].stage)
  /\ \A p \in Shapes : Selected(1, p) /\ best_idx[1][p] = 1

\* The last step was a construction, with these arguments
Constructing == "alternatives" \in DOMAIN result
Rejected == result.status = "AssertionError"
\* The second item of every alternative is a list or tuple of `stages` entries
StageListsFit(alternatives, stages) ==
  \A i \in DOMAIN alternatives :
    /\ alternatives[i][2].type \in {"list", "tuple"}
    /\ Len(alternatives[i][2].fns) = stages
\* The second item of every alternative is a function, a lambda or a built-in
AllPlainCallables(alternatives) ==
  \A i \in DOMAIN alternatives :
    alternatives[i][2].type \in {"function", "builtin_function_or_method"}
\* Every entry of every stage list is a function or a lambda
AllStagesFunctions(alternatives) ==
  \A i \in DOMAIN alternatives :
    \A k \in DOMAIN alternatives[i][2].fns : alternatives[i][2].fns[k].type = "function"
NothingInitialised ==
  /\ regs[1] = NoReg
  /\ best_idx[1] = <<>> /\ times[1] = <<>> /\ stages_times[1] = <<>>
  /\ executions[1] = {}

\* C9 as claimed: with stages >= 1 a construction fails exactly when stages is
\* 1 and an alternative is not a plain callable, stages is more than 1 and a
\* stage list has not `stages` entries, rounds < 1, or pruning_speedup <= 1.
C9_AsClaimed ==
  (Constructing /\ result.stages >= 1) =>
    /\ Rejected <=>
         \/ result.stages = 1 /\ ~ AllPlainCallables(result.alternatives)
         \/ result.stages > 1 /\ ~ StageListsFit(result.alternatives, result.stages)
         \/ result.rounds < 1
         \/ result.pruning_speedup <= 1
    /\ Rejected => NothingInitialised

\* C9 as amended: with stages >= 1 a construction fails, leaving nothing
\* initialised, exactly when stages is 1 and an alternative is not a plain
\* callable, stages is more than 1 and an alternative is not a list or tuple
\* of exactly `stages` functions (a built-in is not accepted as a stage),
\* rounds < 1, or pruning_speedup <= 1; otherwise the registry holds the
\* arguments given.
C9_Construction ==
  (Constructing /\ result.stages >= 1) =>
    /\ Rejected <=>
         \/ result.stages = 1 /\ ~ AllPlainCallables(result.alternatives)
         \/ /\ result.stages > 1
            /\ \/ ~ StageListsFit(result.alternatives, result.stages)
               \/ ~ AllStagesFunctions(result.alternatives)
         \/ result.rounds < 1
         \/ result.pruning_speedup <= 1
    /\ Rejected => NothingInitialised
    /\ ~ Rejected =>
         /\ regs[1] # NoReg
         /\ regs[1].alternatives = result.alternatives
         /\ regs[1].stages = result.stages
         /\ regs[1].total_rounds = result.rounds
         /\ regs[1].pruning_speedup = result.pruning_speedup
         /\ regs[1].total_alternatives = Len(result.alternatives)

\* A pipeline of the right length is rejected for a stage that is a built-in
C9_Witness ==
  /\ Constructing
  /\ Rejected
  /\ NothingInitialised
  /\ result.stages = 2 /\ result.rounds >= 1 /\ result.pruning_speedup > 1
  /\ StageListsFit(result.alternatives, result.stages)
  /\ \E i \in DOMAIN result.alternatives :
       result.alternatives[i][2].fns[2].type = "builtin_function_or_method"

\* The registries and problem sizes the activation f has called without a
\* selection being cached for them
Unconverged(f) == {c \in f.called : ~ Selected(c[1], c[2])}
\* The node of registry r called from this site of the main program
TopNode(r, site) == <<r, << <<site, "main">> >> >>

\* C3: when an invocation of an alternative of the outer registry (1) that is
\* under evaluation returns, and during it the inner registry (2) was called
\* with a problem size for which no selection is cached, the samples, the
\* cursor and the round of the outer registry are left as they were: the
\* number of samples of the outer registry grows only when every inner call
\* of the invocation has its selection cached.
C3_NoContaminatedSample ==
  [][\A p \in Shapes :
       (/\ stack # <<>>
        /\ Returned
        /\ Top(stack).r = 1
        /\ Top(stack).line = 324
        /\ Top(stack).problem_size = p
        /\ Unconverged(Top(stack)) # {})
       => /\ Samples(1, p)' = Samples(1, p)
          /\ TotalSamples(1, p)' = TotalSamples(1, p)
          /\ current_alternative'[1][p] = current_alternative[1][p]
          /\ current_round'[1][p] = current_round[1][p]
          /\ Selection(1, p)' = Selection(1, p)]_vars

\* The outer registry has converged for one problem size; for another it has
\* returned from an invocation whose inner call was sampled and is not
\* converged, and it has no sample.
C3_Witness ==
  /\ stack = <<>>
  /\ {1, 2} \subseteq Created
  /\ \E p \in Shapes, q \in Shapes :
       /\ p # q
       /\ Selected(1, p)
       /\ q \in DOMAIN times[2]
       /\ TotalSamples(2, q) > 0
       /\ ~ Selected(2, q)
       /\ \E site \in Sites :
            /\ TopNode(1, site) \in DOMAIN nodes
            /\ \E b \in nodes[TopNode(1, site)].blocked_by : b[1] = q
       /\ TotalSamples(1, q) = 0
       /\ current_alternative[1][q] = 0
       /\ current_round[1][q] = 0

\* C11: while the switch is set, no step (the entry of a call, its return, a
\* construction) changes the samples, the stage buffers, the cursor, the
\* round or the selection of any registry and problem size.
C11_OverrideLeavesTuning ==
  [][use_first_alternative => UNCHANGED tuning]_vars

\* A call is running under the switch for a registry that was in the middle
\* of its evaluation when the switch was set
C11_Witness ==
  /\ use_first_alternative
  /\ Len(stack) = 1
  /\ stack[1].line = 296
  /\ \E p \in Shapes :
       /\ ~ Selected(1, p)
       /\ p \in DOMAIN times[1]
       /\ TotalSamples(1, p) > 0
       /\ current_alternative[1][p] > 0

\* C12: while the switch is set, no step changes the execution tree: no node
\* is created, no node gets a child, a problem size or a blocking flag.
C12_OverrideLeavesTree ==
  [][use_first_alternative => UNCHANGED nodes]_vars

\* C13: in a pipeline a callable is run only for a stage argument with
\* 0 <= stage < stages; a call with any other stage ends in the assertion
\* error with nothing run.
C13_StageInRange ==
  [][Entered =>
       LET f == Top(stack') IN
       regs[f.r].stages > 1 => (0 <= f.stage /\ f.stage < regs[f.r].stages)]_vars

\* C14: a call that ends in the assertion error on its stage leaves the
\* tuning state, the map of execution nodes of the registry and the
\* execution tree as they were.
C14_RejectedCallChangesNothing ==
  [][(result' = Failed("AssertionError") /\ stack' = stack /\ regs' = regs) =>
       UNCHANGED <<tuning, executions, nodes>>]_vars

\* The activation on top ends by an exception
Raised == Returned /\ result'.status = "raised"

\* C15: when the callable under evaluation raises, the activation ends with
\* the exception as the result of the call and leaves the samples, the stage
\* buffers, the cursor, the round and the selection of every key as they
\* were; and every evaluated call dispatches the alternative under the cursor
\* of its problem size, so that the next call runs the same index again.
C15_RaiseLeavesTuning ==
  [][/\ (Raised /\ Top(stack).line = 324) =>
          /\ UNCHANGED tuning
          /\ result' = Failed("raised")
     /\ \A r \in Registries, p \in Shapes :
          EvalEntered(r, p) => Top(stack').alt = current_alternative[r][p]]_vars

\* The second alternative is under evaluation again after it raised: one
\* sample of the first, none of the second, the cursor on the second
C15_Witness ==
  /\ 1 \in Created
  /\ Len(stack) = 1
  /\ stack[1].r = 1 /\ stack[1].line = 324 /\ stack[1].alt = 1
  /\ LET p == stack[1].problem_size IN
       /\ Len(current_parents) = 2
       /\ current_parents[1] = stack[1].node
       /\ nodes[stack[1].node].current_problem_size = p
       /\ current_alternative[1][p] = 1
       /\ Len(Samples(1, p)[1]) = 1
       /\ Len(Samples(1, p)[2]) = 0

\* The least number of timed calls of registry r with problem size p that
\* have returned: one per sample in a single-stage registry, and one more when
\* a sample was dropped
Benchmarked(r, p) == TotalSamples(r, p) + (IF dropped[r][p] THEN 1 ELSE 0)

\* C16: for every single-stage registry and problem size, the timed calls
\* made are at most rounds * total_alternatives, also for a registry whose
\* functions call another registry.
C16_BenchmarkedCallsBounded ==
  \A r \in Registries, p \in Shapes :
    SingleStage(r) =>
      Benchmarked(r, p) <= regs[r].total_rounds * regs[r].total_alternatives

\* C17: what best_method_has_been_found returns is true exactly when a
\* selection is cached for the problem size of its arguments, whatever calls
\* and queries came before.
C17_FoundIffSelected ==
  "found" \in DOMAIN result => (result.found <=> Selected(1, result.problem_size))

\* C18: the cursor, the round and the samples are kept per registry and
\* problem size, not per node: an evaluated call made from any node dispatches
\* the alternative under the one cursor of its (registry, problem size), its
\* return, when the node is not blocked, adds its sample to the one pool of
\* that key, and once a selection is cached for the key a call from any node,
\* also one that cached nothing itself, is served from it on the fast path.
C18_SharedAcrossNodes ==
  [][\A r \in Registries, p \in Shapes :
       /\ EvalEntered(r, p) => Top(stack').alt = current_alternative[r][p]
       /\ (EvalReturned(r, p) /\ ~ is_blocked(nodes, Top(stack).node)) =>
            Len(Samples(r, p)'[Top(stack).alt + 1])
              = Len(Samples(r, p)[Top(stack).alt + 1]) + 1
       /\ (/\ Entered /\ Top(stack').r = r /\ Top(stack').problem_size = p
           /\ Selected(r, p) /\ ~ use_first_alternative) =>
            /\ Top(stack').line = 303
            /\ Top(stack').fn = best_method[r][p]
            /\ KeyState(r, p)' = KeyState(r, p)]_vars

\* The inner registry is served from its selection in a call made beneath the
\* outer one, through the node that took a sample and set a block there, while
\* the selection was cached through the node of the main program's own calls:
\* the block of the first node is still there
C18_Witness ==
  /\ Len(stack) = 2
  /\ stack[2].r = 2 /\ stack[2].line = 303 /\ stack[2].node # stack[1].node
  /\ nodes[stack[2].node].parent = stack[1].node
  /\ <<stack[2].problem_size, stack[2].node>> \in nodes[stack[1].node].blocked_by
  /\ \E n \in DOMAIN nodes :
       /\ n[1] = 2 /\ n # stack[2].node
       /\ stack[2].problem_size \in nodes[n].problem_sizes
  /\ TotalSamples(2, stack[2].problem_size) = 2

\* C19: for every node N and problem size p, when every child in N's
\* blocked-by set for p has a cached selection for the registry and problem
\* size with which it blocked N (here the problem size of N: the callables
\* pass their own arguments on), the set is empty, so N is not blocked for p.
C19_BlockedOnlyWhileUnconverged ==
  \A n \in DOMAIN nodes, p \in Shapes :
    LET children == {b \in nodes[n].blocked_by : b[1] = p} IN
    (\A b \in children : Selected(b[2][1], p)) => children = {}

\* The mark of node n in the blocked-by set of its parent, under the problem
\* size the parent has in ns
Mark(ns, n) == <<ns[ns[n].parent].current_problem_size, n>>
Marked(ns, n) == Mark(ns, n) \in ns[ns[n].parent].blocked_by
HasParent(ns, n) == ns[n].parent # Root

\* C20 as stated: an evaluated call sets the mark of its node on the parent
\* before the alternative runs, and the mark is gone when the call returns.
C20_AsClaimed ==
  [][\A r \in Registries, p \in Shapes :
       /\ (EvalEntered(r, p) /\ HasParent(nodes', Top(stack').node)) =>
            Marked(nodes', Top(stack').node)
       /\ (EvalReturned(r, p) /\ HasParent(nodes, Top(stack).node)) =>
            ~ Marked(nodes', Top(stack).node)]_vars

\* C20: an evaluated call of a node beneath another node sets the mark of its
\* node on the parent, under the parent's current problem size, before the
\* alternative runs; the return of the call removes the mark when it caches a
\* selection for its problem size, and leaves every node as it was otherwise.
C20_MarkKeptUntilSelection ==
  [][\A r \in Registries, p \in Shapes :
       /\ (EvalEntered(r, p) /\ HasParent(nodes', Top(stack').node)) =>
            Marked(nodes', Top(stack').node)
       /\ (EvalReturned(r, p) /\ HasParent(nodes, Top(stack).node)) =>
            /\ Marked(nodes, Top(stack).node)
            /\ IF Selected(r, p)' /\ ~ Selected(r, p)
               THEN ~ Marked(nodes', Top(stack).node)
               ELSE nodes' = nodes]_vars

\* The inner call has returned with its first sample and no selection; the
\* outer function is still running and the inner node's mark is on its node
C20_Witness ==
  /\ Len(stack) = 1
  /\ stack[1].r = 1 /\ stack[1].line = 324
  /\ stack[1].called # {}
  /\ \E n \in DOMAIN nodes :
       /\ n[1] = 2 /\ nodes[n].parent = stack[1].node
       /\ Marked(nodes, n)
  /\ TotalSamples(2, stack[1].problem_size) = 1
  /\ ~ Selected(2, stack[1].problem_size)

\* The step is the return of an evaluated call made through node n that caches
\* a selection for the problem size of the call
SelectingReturn(n) ==
  /\ Returned
  /\ Top(stack).node = n /\ Top(stack).line = 324
  /\ nodes[n].current_problem_size = Top(stack).problem_size
  /\ \E r \in Registries, p \in Shapes :
       /\ r = Top(stack).r /\ p = Top(stack).problem_size
       /\ ~ Selected(r, p)
       /\ Selected(r, p)'

\* C21: an entry of a child in a node's blocked-by set leaves the set only in
\* a step that is the return of an evaluated call of that child which caches a
\* selection for the child's current problem size; the entry of a call, the
\* return of a call served from the cache, of one whose sample is dropped and
\* of one whose decision selects nothing remove no entry.
C21_RemovedOnlyBySelection ==
  [][\A m \in DOMAIN nodes :
       \A b \in nodes[m].blocked_by :
         b \notin nodes'[m].blocked_by => SelectingReturn(b[2])]_vars

\* The inner registry has taken its decision after the first round, which
\* discards one function and selects nothing, in a call beneath the outer
\* function: the mark of the inner node is still on the outer node
C21_Witness ==
  /\ Len(stack) = 1
  /\ stack[1].r = 1 /\ stack[1].line = 324
  /\ 2 \in Created /\ regs[2].total_alternatives = 3
  /\ current_round[2][stack[1].problem_size] = 1
  /\ current_alternative[2][stack[1].problem_size] = 0
  /\ TotalSamples(2, stack[1].problem_size) = 3
  /\ ~ Selected(2, stack[1].problem_size)
  /\ <<2, stack[1].problem_size>> \in stack[1].called
  /\ \E b \in nodes[stack[1].node].blocked_by : b[1] = stack[1].problem_size

\* C22: once a selection is cached for a registry and problem size, no step
\* changes its index, name, callable or stage list, also when a function of
\* the registry calls the registry again with the same problem size while the
\* outer call is being evaluated.
C22_SelectionNeverChanges ==
  [][\A r \in Registries, p \in Shapes :
       Selected(r, p) => Selection(r, p)' = Selection(r, p)]_vars

\* Every function of the registry takes one fixed time, so that the medians,
\* and with them the live alternatives, are at every moment those of the most
\* recent decision
FixedSpeed(r) ==
  /\ SingleStage(r)
  /\ \A i \in DOMAIN regs[r].alternatives : Cardinality(regs[r].alternatives[i][2].cost) = 1

\* C23: once the decisions have begun for a problem size (the round is at
\* min(prune_after_round, rounds) or more) and no selection is cached, every
\* evaluated call dispatches an alternative that the most recent decision
\* found live, that is, whose median is within pruning_speedup of the least.
C23_OnlyLiveDispatched ==
  [][\A r \in Registries, p \in Shapes :
       (/\ EvalEntered(r, p)
        /\ FixedSpeed(r)
        /\ current_round[r][p] >= Min2(regs[r].prune_after_round, regs[r].total_rounds))
       => Top(stack').alt \in LiveAlternatives(r, p)]_vars

\* Every alternative has one sample per round counted, and one more when the
\* cursor has passed it in the round under way
RoundRobinCounts(r, p) ==
  \A i \in AllAlternatives(r) :
    Len(Samples(r, p)[i + 1])
      = current_round[r][p] + (IF i < current_alternative[r][p] THEN 1 ELSE 0)

CursorMoved(r, p) ==
  \/ current_alternative'[r][p] # current_alternative[r][p]
  \/ current_round'[r][p] # current_round[r][p]

\* C24 as stated: between two increments of the round every alternative is
\* recorded exactly once, in increasing order of index; in a pipeline the
\* cursor and the round change only in a call for the last stage that appended
\* a sample.
C24_AsClaimed ==
  [][\A r \in Registries, p \in Shapes :
       r \in Created =>
         /\ SingleStage(r) => RoundRobinCounts(r, p)'
         /\ (regs[r].stages > 1 /\ CursorMoved(r, p)) =>
              /\ EvalReturned(r, p)
              /\ Top(stack).stage = regs[r].stages - 1
              /\ Samples(r, p)' # Samples(r, p)]_vars

\* C24: the cursor and the round of a problem size change only at the return
\* of an evaluated call that appended a sample for the alternative it
\* dispatched (in a pipeline: a call for the last stage); an evaluated call
\* dispatches the alternative under the cursor; the return that appends a
\* sample for alternative a leaves the cursor at a + 1 and the round as it was
\* when a is not the last one, and when a is the last one counts a round and
\* leaves the cursor at 0, or, when a decision is taken there that selects
\* nothing, at the first alternative the decision found live: the alternatives
\* recorded in a round are, in increasing order and once each, those from the
\* index the preceding decision left the cursor at to the last.
C24_RoundStructure ==
  [][\A r \in Registries, p \in Shapes :
       r \in Created =>
         LET K == regs[r].total_alternatives
             a == Top(stack).alt
             decided == current_round'[r][p] >= Min2(regs[r].prune_after_round, regs[r].total_rounds)
         IN
         /\ CursorMoved(r, p) =>
              /\ EvalReturned(r, p)
              /\ Len(Samples(r, p)'[a + 1]) = Len(Samples(r, p)[a + 1]) + 1
              /\ regs[r].stages > 1 => Top(stack).stage = regs[r].stages - 1
         /\ EvalEntered(r, p) => Top(stack').alt = current_alternative[r][p]
         /\ (EvalReturned(r, p) /\ Samples(r, p)' # Samples(r, p)) =>
              IF a + 1 < K
              THEN /\ current_alternative'[r][p] = a + 1
                   /\ current_round'[r][p] = current_round[r][p]
              ELSE /\ current_round'[r][p] = current_round[r][p] + 1
                   /\ current_alternative'[r][p] =
                        IF decided /\ ~ Selected(r, p)'
                        THEN Least(LiveAlternatives(r, p)') ELSE 0]_vars

\* The first decision has discarded the first function and selected nothing:
\* the second round starts at the second function
C24_Witness ==
  /\ stack = <<>>
  /\ SingleStage(1) /\ regs[1].total_alternatives = 3
  /\ \E p \in Shapes :
       /\ ~ Selected(1, p)
       /\ current_round[1][p] = 1
       /\ current_alternative[1][p] = 1
       /\ 0 \notin LiveAlternatives(1, p)
       /\ TotalSamples(1, p) = 3

\* C25: the root has no registry and no parent, and its blocked-by set is
\* empty in every state: no call, nested or not, puts an entry there.
C25_RootNeverBlocked ==
  /\ nodes[Root].best_of = 0
  /\ nodes[Root].parent = NoNode
  /\ nodes[Root].blocked_by = {}
  /\ \A n \in DOMAIN nodes : n # Root => nodes[n].best_of \in Created

\* An evaluated call of the inner registry inside an evaluated call of the
\* outer one, whose node is a child of the root: the mark is on the outer node
C25_Witness ==
  /\ Len(stack) = 2
  /\ stack[1].line = 324 /\ stack[2].line = 324
  /\ nodes[stack[1].node].parent = Root
  /\ nodes[stack[2].node].parent = stack[1].node
  /\ nodes[stack[1].node].blocked_by # {}
  /\ Len(nodes[Root].children) > 0

\* The context of a node as the program's source has it: the call site in the
\* main program, then the functions entered from there, without the line of
\* __call__ each of them was invoked from
CallPath(n) ==
  [i \in 1..Len(n[2]) |-> IF i = 1 THEN n[2][1] ELSE <<0, n[2][i][2]>>]

\* C26: a node is the node of one registry and one nested call path; calls of
\* a registry from the same call path use one node, so that no two nodes of a
\* registry have the same call path; and a node once made stays, with the
\* parent it was made with.
C26_NodePerCallPath ==
  [][/\ \A n \in DOMAIN nodes :
          /\ n \in DOMAIN nodes'
          /\ nodes'[n].parent = nodes[n].parent
     /\ \A n \in DOMAIN nodes' :
          /\ nodes'[n].best_of = n[1] /\ nodes'[n].execution_id = n[2]
          /\ \A m \in DOMAIN nodes' :
               (m[1] = n[1] /\ CallPath(m) = CallPath(n)) => m = n]_vars

\* C27: a node made by a call is made as a child of the node of the innermost
\* call that is active when it is made, whether that call is being evaluated
\* or is served from its selection, and as a child of the root when the main
\* program makes the call.
C27_ChildOfEnclosingCall ==
  [][\A n \in DOMAIN nodes' :
       n \notin DOMAIN nodes =>
         nodes'[n].parent = IF stack = <<>> THEN Root ELSE Top(stack).node]_vars

\* The series recorded for alternative i (from 1), empty before the first
\* sample of the problem size
Series(r, p, i) == IF p \in DOMAIN times[r] THEN times[r][p][i] ELSE <<>>

\* C28: every step leaves the series of every registry, problem size and
\* alternative as it was or with exactly one sample more at its end; the stage
\* buffers of a single-stage registry never change, those of a pipeline are
\* what is reset.
C28_SeriesOnlyGrow ==
  [][\A r \in Registries, p \in Shapes :
       r \in Created =>
         /\ \A i \in 1..regs[r].total_alternatives :
              \/ Series(r, p, i)' = Series(r, p, i)
              \/ /\ Len(Series(r, p, i)') = Len(Series(r, p, i)) + 1
                 /\ SubSeq(Series(r, p, i)', 1, Len(Series(r, p, i))) = Series(r, p, i)
         /\ p \in DOMAIN times[r] => p \in DOMAIN times'[r]
         /\ SingleStage(r) => \A i \in DOMAIN StageBuffers(r, p) :
                                \A k \in DOMAIN StageBuffers(r, p)[i] :
                                  StageBuffers(r, p)'[i][k] = NoTime]_vars

\* A pipeline with two samples for one alternative, and a stage buffer that
\* has been reset after a sample was made from it
C28_Witness ==
  /\ stack = <<>>
  /\ 1 \in Created /\ regs[1].stages > 1
  /\ \E p \in Shapes, i, j \in 1..regs[1].total_alternatives :
       /\ Len(Series(1, p, i)) = 2
       /\ Len(Series(1, p, j)) > 0
       /\ \A k \in DOMAIN StageBuffers(1, p)[j] : StageBuffers(1, p)[j][k] = NoTime

\* Alternative i (from 0) of the registry raises whenever it is invoked
AlwaysRaises(r, i) ==
  /\ r \in Created
  /\ ValidIndex(regs[r].alternatives, i)
  /\ regs[r].alternatives[i + 1][2].raises
  /\ regs[r].alternatives[i + 1][2].cost = {}

\* C29: when alternative i of a registry raises whenever it is invoked, then
\* for every problem size a cursor that is at i stays at i in every step, the
\* series of i stays empty, and no selection is cached.
C29_RaisingAlternativeStalls ==
  [][\A r \in Registries, p \in Shapes :
       r \in Created =>
         \A i \in AllAlternatives(r) :
           AlwaysRaises(r, i) =>
             /\ current_alternative[r][p] = i => current_alternative'[r][p] = i
             /\ Series(r, p, i + 1)' = <<>>
             /\ ~ Selected(r, p)'
             /\ current_round'[r][p] = 0]_vars

\* The cursor of a problem size has come to the function that raises, which
\* has been invoked and has raised twice
C29_Witness ==
  /\ stack = <<>>
  /\ result.status = "raised"
  /\ Len(current_parents) = 2
  /\ \E p \in Shapes :
       /\ AlwaysRaises(1, current_alternative[1][p])
       /\ Len(Series(1, p, 1)) = 1
       /\ nodes[current_parents[2]].current_problem_size = p
       /\ nodes[current_parents[1]].current_problem_size = p

\* The samples after which a selection is cached at the latest
Budget(r) == regs[r].total_rounds * regs[r].total_alternatives

\* C30: a registry whose functions return and call no registry, called again
\* and again with one problem size, the stages of a pipeline in order, never
\* has more than rounds * total_alternatives samples for it, has a selection
\* once it has that many and no call is under way, and eventually has one.
C30_EventuallySelected ==
  /\ [](1 \in Created =>
          \A p \in Shapes :
            /\ TotalSamples(1, p) <= Budget(1)
            /\ (TotalSamples(1, p) = Budget(1) /\ stack = <<>>) => Selected(1, p))
  /\ (1 \in Created) ~> Selected(1, 1)

\* A selection cached with the last sample the rounds allow, in a pipeline and
\* in a registry that discards nothing
C30_Witness ==
  /\ stack = <<>>
  /\ Selected(1, 1)
  /\ TotalSamples(1, 1) = Budget(1)
  /\ regs[1].name \in {"nopruning", "pipe"}

\* C31: with two registries made, every function of the outer one calling the
\* inner one with one fixed problem size, and the main program calling the
\* outer one with each of two problem sizes again and again, eventually the
\* inner registry and both problem sizes of the outer one have a selection.
C31_NestedEventuallySelected ==
  (1 \in Created /\ 2 \in Created) ~> (Selected(2, 1) /\ Selected(1, 1) /\ Selected(1, 2))

\* The samples the first decision of a problem size was taken on: without
\* nested calls every alternative is sampled in turn until the round counter
\* reaches min(prune_after_round, rounds)
FirstDecisionRound(r) == Min2(regs[r].prune_after_round, regs[r].total_rounds)
FirstDecisionTimes(r, p) ==
  [i \in DOMAIN Samples(r, p) |-> SubSeq(Samples(r, p)[i], 1, FirstDecisionRound(r))]
FirstDecisionTaken(r, p) ==
  /\ FirstDecisionRound(r) >= 1
  /\ \A i \in DOMAIN Samples(r, p) : Len(Samples(r, p)[i]) >= FirstDecisionRound(r)
FirstLive(r, p) ==
  LET best_times == BestTimes(FirstDecisionTimes(r, p))
  IN  {i \in AllAlternatives(r) :
         best_times[i + 1] <= Least(Range(best_times)) * regs[r].pruning_speedup}

\* C32: in a single-stage registry, an alternative whose median was above
\* min_time * pruning_speedup at the first decision of a problem size is
\* never the selection cached for that problem size.
C32_DiscardedNeverSelected ==
  \A r \in Created, p \in Shapes :
    (SingleStage(r) /\ Selected(r, p) /\ FirstDecisionTaken(r, p))
      => best_idx[r][p] \in FirstLive(r, p)

\* C33: with prune_after_round >= 1, at the step that caches a selection for
\* a problem size every alternative of the registry has at least
\* min(prune_after_round, rounds) and at most rounds samples for it.
SampleCountsInRange(r, p) ==
  \A i \in DOMAIN Samples(r, p) :
    /\ Len(Samples(r, p)[i]) >= FirstDecisionRound(r)
    /\ Len(Samples(r, p)[i]) <= regs[r].total_rounds
C33_SamplesWhenSelected ==
  [][\A r \in Registries, p \in Shapes :
       (~Selected(r, p) /\ Selected(r, p)' /\ regs[r].prune_after_round >= 1)
         => SampleCountsInRange(r, p)']_vars
\* A selection cached with one alternative at the lower bound and another at
\* the upper one
C33_Witness ==
  \E r \in Created, p \in Shapes :
    /\ Selected(r, p) /\ regs[r].prune_after_round >= 1
    /\ \E i, j \in DOMAIN Samples(r, p) :
         /\ Len(Samples(r, p)[i]) = FirstDecisionRound(r)
         /\ Len(Samples(r, p)[j]) = regs[r].total_rounds
         /\ Len(Samples(r, p)[i]) < Len(Samples(r, p)[j])

\* C34: in a pipeline registry with prune_after_round >= 1, the selection and
\* the cursor of a problem size change only at the return of a call for the
\* last stage that appended a pipeline sample; so between two such returns
\* every call for that problem size is dispatched to the same alternative.
Pipeline(r) == r \in Created /\ regs[r].stages > 1
C34_SelectedAtCompleteCycle ==
  [][\A r \in Registries, p \in Shapes :
       (/\ Pipeline(r) /\ regs[r].prune_after_round >= 1
        /\ \/ Selection(r, p)' # Selection(r, p)
           \/ current_alternative[r][p]' # current_alternative[r][p])
         => /\ EvalReturned(r, p)
            /\ Top(stack).stage = regs[r].stages - 1
            /\ TotalSamples(r, p)' = TotalSamples(r, p) + 1]_vars
\* A pipeline selected in its last round, after a decision that discarded
\* nothing and left the cursor on the first alternative
C34_Witness ==
  \E r \in Created, p \in Shapes :
    /\ Pipeline(r) /\ regs[r].prune_after_round >= 1
    /\ Selected(r, p) /\ best_pipeline[r][p] # NoneV
    /\ stack = <<>>
    /\ regs[r].total_rounds > 1
    /\ \A i \in DOMAIN Samples(r, p) : Len(Samples(r, p)[i]) = regs[r].total_rounds

\* C35: in a single-stage registry with prune_after_round >= 1, at every
\* return that counts a round, the round having reached
\* min(prune_after_round, rounds) (the returns at which the decision is
\* evaluated), every alternative has a sample for the problem size, every
\* median is a number and some alternative is within the pruning speedup.
DecisionInputsSound(r, p) ==
  /\ \A i \in DOMAIN Samples(r, p) : Samples(r, p)[i] # <<>>
  /\ \A i \in DOMAIN Samples(r, p) : Medians(r, p)[i] # NaN
  /\ LiveAlternatives(r, p) # {}
C35_DecisionOnSampledAlternatives ==
  [][\A r \in Registries, p \in Shapes :
       (/\ SingleStage(r) /\ regs[r].prune_after_round >= 1
        /\ EvalReturned(r, p)
        /\ current_round[r][p]' > current_round[r][p]
        /\ current_round[r][p]' >= FirstDecisionRound(r))
         => DecisionInputsSound(r, p)']_vars
\* A decision was evaluated, discarded an alternative and selected none
C35_Witness ==
  \E r \in Created, p \in Shapes :
    /\ SingleStage(r) /\ regs[r].prune_after_round >= 1
    /\ current_round[r][p] >= FirstDecisionRound(r)
    /\ ~ Selected(r, p)
    /\ DecisionInputsSound(r, p)
    /\ LiveAlternatives(r, p) # AllAlternatives(r)

\* C36: for every registry and problem size the stored cursor is in
\* 0..total_alternatives-1 and the stored round counter is in 0..rounds, also
\* when a function of the registry calls the registry again with the same
\* problem size.
C36_CursorAndRoundInRange ==
  \A r \in Created, p \in Shapes :
    /\ current_alternative[r][p] \in 0..(regs[r].total_alternatives - 1)
    /\ current_round[r][p] \in 0..regs[r].total_rounds

\* C37: the stack of active parent nodes is balanced: whenever no call of a
\* registry is under way it is empty, also after a call whose function
\* raised.
C37_ParentsBalanced == stack = <<>> => current_parents = <<>>

\* The places (node, position) of the children lists that hold node n
ListedAt(n) ==
  {mk \in (DOMAIN nodes) \X (1..Cardinality(DOMAIN nodes)) :
     mk[2] \in DOMAIN nodes[mk[1]].children /\ nodes[mk[1]].children[mk[2]] = n}
RECURSIVE ReachesRoot(_, _)
ReachesRoot(n, k) ==
  IF n = Root THEN TRUE
  ELSE IF k = 0 \/ n \notin DOMAIN nodes THEN FALSE
  ELSE ReachesRoot(nodes[n].parent, k - 1)

\* C38: the execution tree is well formed in every reachable state: every
\* node but the root is listed exactly once, in the children of its parent;
\* the parent links of every node lead to the root; and every node that
\* blocks a node N is a child of N.
C38_TreeWellFormed ==
  /\ Root \in DOMAIN nodes /\ nodes[Root].parent = NoNode /\ ListedAt(Root) = {}
  /\ \A n \in DOMAIN nodes \ {Root} :
       /\ nodes[n].parent \in DOMAIN nodes
       /\ Cardinality(ListedAt(n)) = 1
       /\ \A mk \in ListedAt(n) : mk[1] = nodes[n].parent
  /\ \A n \in DOMAIN nodes : ReachesRoot(n, Cardinality(DOMAIN nodes))
  /\ \A n \in DOMAIN nodes : \A b \in nodes[n].blocked_by :
       b[2] \in Range(nodes[n].children)
\* A node below the root blocked by a child, the root having other children
C38_Witness ==
  \E n \in DOMAIN nodes \ {Root} :
    /\ nodes[n].children # <<>>
    /\ nodes[n].blocked_by # {}
    /\ Len(nodes[Root].children) >= 2

====
